---- MODULE Spec2Model ----
(***************************************************************************)
(* Model of src/transcriber.py: the audio producer (audio_callback), the   *)
(* HTTP handler (QuietHandler.do_GET and do_POST), the session supervisor  *)
(* loop of main() and the transcription_worker threads it spawns, together *)
(* with the files they write (transcript.json, transcript_<stamp>.md) and  *)
(* the last line each worker printed.                                      *)
(*                                                                         *)
(* Units: times are in milliseconds, volumes in thousandths.  A frame is   *)
(* represented by its RMS amplitude; every frame holds CHUNK_SIZE samples. *)
(***************************************************************************)
EXTENDS Integers, Sequences, FiniteSets, TLC

\* ---------------------------------------------------------------- constants
SAMPLE_RATE == 16000
SILENCE_THRESHOLD == 15
SILENCE_DURATION == 1500
MIN_AUDIO_LENGTH == 300
CHUNK_SIZE == 1024
SecondsPerDay == 86400
MsPerSecond == 1000

\* ------------------------------------------------------------------- bounds
MaxFrames == 5
MaxQueue == 2
MaxRequests == 3
MaxTicks == 2
TickMs == 1000
\* the bounds of the single-session specification
ListenFrames == 10
ListenTicks == 4
ListenQueue == 1
\* the number of frames captured in the silent room
SilentFrames == 1
\* the process is started at 23:59:59 local time
StartClock == 86399000

FrameVolumes == {14, 15}
SilentVolume == 14

None == -1

VARIABLES
    audio_queue,    \* queue.Queue(): frames put by audio_callback
    is_recording,   \* module global read by the workers
    transcript,     \* module global list of entries
    json_file,      \* bytes of transcript.json, as a token sequence
    md_files,       \* the transcript_<stamp>.md files on disk
    app_state,      \* [recording, start_event, stop_event]
    httpPc,         \* position of the (single) HTTP server thread
    supPc,          \* position of main()'s supervisor loop
    workers,        \* one record per transcription_worker thread started
    now,            \* wall clock, ms
    reqs,           \* history: the requests received, in order
    nframes,        \* history: number of frames captured
    dispatched,     \* history: utterances passed to model.transcribe
    exportLog,      \* history: one record per export written
    evReq,          \* history: which request raised each pending signal
    loudLive,       \* history: a frame at/above threshold was captured
                    \* between a start request and the next stop request
    lastReply       \* history: the response to the last request that was
                    \* not a start or a stop, if any

vars == <<audio_queue, is_recording, transcript, json_file, md_files,
          app_state, httpPc, supPc, workers, now, reqs, nframes, dispatched,
          exportLog, evReq, loudLive, lastReply>>

\* ------------------------------------------------------------ pure helpers
RECURSIVE Join(_)
\* " ".join(fragments)
Join(frags) ==
    IF frags = <<>> THEN <<>>
    ELSE IF Len(frags) = 1 THEN frags[1]
    ELSE frags[1] \o <<" ">> \o Join(Tail(frags))

IsSpace(c) == c \in {" ", "\t", "\n"}

RECURSIVE LStrip(_)
LStrip(s) == IF s # <<>> /\ IsSpace(Head(s)) THEN LStrip(Tail(s)) ELSE s

RECURSIVE RStrip(_)
RStrip(s) ==
    IF s # <<>> /\ IsSpace(s[Len(s)]) THEN RStrip(SubSeq(s, 1, Len(s) - 1))
    ELSE s

\* str.strip()
Strip(s) == RStrip(LStrip(s))

LowerChar(c) ==
    CASE c = "Y" -> "y"
      [] c = "O" -> "o"
      [] c = "U" -> "u"
      [] c = "H" -> "h"
      [] c = "I" -> "i"
      [] c = "T" -> "t"
      [] c = "E" -> "e"
      [] c = "A" -> "a"
      [] OTHER -> c

\* str.lower()
Lower(s) == [i \in 1..Len(s) |-> LowerChar(s[i])]

\* the literal list of line 100
NoiseTokens ==
    { <<"y", "o", "u">>, <<"y", "o", "u", ".">>, <<"t", "h", "e">>,
      <<"a">>, <<".">> }

KeepTextCaseSensitive(text) == text # <<>> /\ text \notin NoiseTokens

\* the condition of line 100
KeepText(text) == text # <<>> /\ Lower(text) \notin NoiseTokens

\* what model.transcribe can do with an utterance: raise, or yield segments
RecogOutcomes ==
    { [raises |-> TRUE,  segs |-> <<>>],
      [raises |-> FALSE, segs |-> <<>>],
      [raises |-> FALSE, segs |-> << <<" ", "H", "i">>, <<" ", "a">> >>],
      [raises |-> FALSE, segs |-> << <<" ", "Y", "o", "u">> >>],
      [raises |-> FALSE, segs |-> << <<" ", "T", "h", "e">>, <<" ">> >>] }

\* get_volume: the RMS of the frame
get_volume(chunk) == chunk.vol

\* len(audio_data) / SAMPLE_RATE >= MIN_AUDIO_LENGTH, in integers (ms)
LongEnough(buf) ==
    Len(buf) * CHUNK_SIZE * MsPerSecond >= MIN_AUDIO_LENGTH * SAMPLE_RATE

\* datetime.now().strftime("%H:%M:%S"): the second of the day
StampHMS(t) == (t \div MsPerSecond) % SecondsPerDay

\* datetime.now().strftime('%Y%m%d_%H%M%S'): date and second of the day
StampFile(t) ==
    [day |-> (t \div MsPerSecond) \div SecondsPerDay,
     hms |-> (t \div MsPerSecond) % SecondsPerDay]

\* datetime.now().strftime('%Y-%m-%d %H:%M')
StampDate(t) == (t \div MsPerSecond) \div 60

\* json.dump(transcript): the array of {time, text} records as tokens
JsonTok(kind, time, text) == [tok |-> kind, time |-> time, text |-> text]

JsonDump(log) ==
    <<JsonTok("[", 0, <<>>)>>
    \o [i \in 1..Len(log) |-> JsonTok("rec", log[i].time, log[i].text)]
    \o <<JsonTok("]", 0, <<>>)>>

\* a write of `bytes` at offset 0 of a file that holds `old`
WriteAt0(old, bytes) ==
    IF Len(bytes) >= Len(old) THEN bytes
    ELSE bytes \o SubSeq(old, Len(bytes) + 1, Len(old))

\* the body save_transcript_md writes
Markdown(log, t) ==
    [date |-> StampDate(t),
     blocks |-> [i \in 1..Len(log) |->
                    [time |-> log[i].time, text |-> log[i].text]]]

\* ------------------------------------------------------------------- state
NewWorker ==
    [pc |-> "check", audio_buffer |-> <<>>, silence_start |-> None,
     heard_speech |-> FALSE, audio_data |-> <<>>, text |-> <<>>,
     timestamp |-> None, fin |-> 0, said |-> ""]

Init ==
    /\ audio_queue = <<>>
    /\ is_recording = TRUE
    /\ transcript = <<>>
    /\ json_file = JsonDump(<<>>)
    /\ md_files = {}
    /\ app_state = [recording |-> FALSE, start_event |-> FALSE,
                    stop_event |-> FALSE]
    /\ httpPc = "idle"
    /\ supPc = "wait_start"
    /\ workers = <<>>
    /\ now = StartClock
    /\ reqs = <<>>
    /\ nframes = 0
    /\ dispatched = <<>>
    /\ exportLog = <<>>
    /\ evReq = [start |-> 0, stop |-> 0, session |-> 0]
    /\ loudLive = FALSE
    /\ lastReply = <<>>


\* --------------------------------------------------------------- producer
\* audio_callback (lines 39-43): the capture thread enqueues every frame,
\* whether or not a session is active
\* history only: the last request received was a start
InSession == reqs # <<>> /\ reqs[Len(reqs)] = "start"

AudioCallback(v) ==
    /\ audio_queue' = Append(audio_queue,
                             [vol |-> v, n |-> nframes + 1,
                              live |-> InSession])
    /\ nframes' = nframes + 1
    /\ UNCHANGED <<is_recording, transcript, json_file, md_files, app_state,
                   httpPc, supPc, workers, now, reqs, dispatched, exportLog,
                   evReq, lastReply>>
    /\ loudLive' = (loudLive \/ (v >= SILENCE_THRESHOLD /\ InSession))

\* the wall clock advances
Tick(d) ==
    /\ now' = now + d
    /\ UNCHANGED <<audio_queue, is_recording, transcript, json_file, md_files,
                   app_state, httpPc, supPc, workers, reqs, nframes,
                   dispatched, exportLog, evReq, loudLive, lastReply>>

\* ----------------------------------------------------------- HTTP handler
\* do_POST, path /api/start, line 158
PostStart ==
    /\ httpPc = "idle"
    /\ reqs' = Append(reqs, "start")
    /\ app_state' = [app_state EXCEPT !.recording = TRUE]
    /\ httpPc' = "start_set"
    /\ UNCHANGED <<audio_queue, is_recording, transcript, json_file, md_files,
                   supPc, workers, now, nframes, dispatched, exportLog, evReq,
                   loudLive, lastReply>>

\* do_POST, path /api/start, lines 159-160
PostStartSet ==
    /\ httpPc = "start_set"
    /\ app_state' = [app_state EXCEPT !.start_event = TRUE]
    /\ evReq' = IF app_state.start_event THEN evReq
                ELSE [evReq EXCEPT !.start = Len(reqs)]
    /\ httpPc' = "idle"
    /\ UNCHANGED <<audio_queue, is_recording, transcript, json_file, md_files,
                   supPc, workers, now, reqs, nframes, dispatched, exportLog,
                   loudLive, lastReply>>

\* do_POST, path /api/stop, line 162
PostStop ==
    /\ httpPc = "idle"
    /\ reqs' = Append(reqs, "stop")
    /\ app_state' = [app_state EXCEPT !.recording = FALSE]
    /\ httpPc' = "stop_set"
    /\ UNCHANGED <<audio_queue, is_recording, transcript, json_file, md_files,
                   supPc, workers, now, nframes, dispatched, exportLog, evReq,
                   loudLive, lastReply>>

\* do_POST, path /api/stop, lines 163-164
PostStopSet ==
    /\ httpPc = "stop_set"
    /\ app_state' = [app_state EXCEPT !.stop_event = TRUE]
    /\ evReq' = [evReq EXCEPT !.stop = Len(reqs)]
    /\ httpPc' = "idle"
    /\ UNCHANGED <<audio_queue, is_recording, transcript, json_file, md_files,
                   supPc, workers, now, reqs, nframes, dispatched, exportLog,
                   loudLive, lastReply>>

\* the files SimpleHTTPRequestHandler finds under SCRIPT_DIR (line 143):
\* the running script itself, and the snapshot that line 205 writes before
\* the server is started
ServedFiles == {"/transcriber.py", "/transcript.json"}

\* paths requested with GET other than /, /index.html and /api/status
OtherGets ==
    {"/transcriber.py", "/transcript.json", "/api/start", "/api/stop",
     "/missing"}

\* paths requested with POST other than /api/start and /api/stop
OtherPosts == {"/", "/api/status", "/transcript.json", "/missing"}

Response(method, path, status, recording) ==
    [method |-> method, path |-> path, status |-> status,
     recording |-> recording]

\* do_GET, lines 151-153: the flag is reported with status 200
GetStatus ==
    /\ httpPc = "idle"
    /\ lastReply' = <<Response("GET", "/api/status", 200,
                               app_state.recording)>>
    /\ UNCHANGED <<audio_queue, is_recording, transcript, json_file, md_files,
                   app_state, httpPc, supPc, workers, now, reqs, nframes,
                   dispatched, exportLog, evReq, loudLive>>

\* do_GET, line 154, for a path that is none of the three of lines 149-151:
\* the request is handed to SimpleHTTPRequestHandler, which serves the file
\* of that name under SCRIPT_DIR and answers 404 when there is none
GetOther(path) ==
    /\ httpPc = "idle"
    /\ lastReply' = <<Response("GET", path,
                               IF path \in ServedFiles THEN 200 ELSE 404,
                               FALSE)>>
    /\ UNCHANGED <<audio_queue, is_recording, transcript, json_file, md_files,
                   app_state, httpPc, supPc, workers, now, reqs, nframes,
                   dispatched, exportLog, evReq, loudLive>>

PostOtherAsStop(path) ==
    /\ httpPc = "idle"
    /\ lastReply' = <<Response("POST", path, 404, FALSE)>>
    /\ app_state' = [app_state EXCEPT !.recording = FALSE]
    /\ UNCHANGED <<audio_queue, is_recording, transcript, json_file, md_files,
                   httpPc, supPc, workers, now, reqs, nframes,
                   dispatched, exportLog, evReq, loudLive>>

\* do_POST, lines 165-166: any other path is answered 404
PostOther(path) ==
    /\ httpPc = "idle"
    /\ lastReply' = <<Response("POST", path, 404, FALSE)>>
    /\ UNCHANGED <<audio_queue, is_recording, transcript, json_file, md_files,
                   app_state, httpPc, supPc, workers, now, reqs, nframes,
                   dispatched, exportLog, evReq, loudLive>>

\* ------------------------------------------------------------- supervisor
\* main, lines 236-237: start_event.wait() returns once the event is set,
\* and the event is cleared
SupWaitStart ==
    /\ supPc = "wait_start"
    /\ app_state.start_event
    /\ app_state' = [app_state EXCEPT !.start_event = FALSE]
    /\ evReq' = [evReq EXCEPT !.session = evReq.start]
    /\ supPc' = "start_worker"
    /\ UNCHANGED <<audio_queue, is_recording, transcript, json_file, md_files,
                   httpPc, workers, now, reqs, nframes, dispatched, exportLog,
                   loudLive, lastReply>>

\* main, lines 240-246: the flag is raised and a new thread started; the
\* previous thread is not joined
SupStartWorker ==
    /\ supPc = "start_worker"
    /\ is_recording' = TRUE
    /\ workers' = Append(workers, NewWorker)
    /\ supPc' = "poll_stop"
    /\ UNCHANGED <<audio_queue, transcript, json_file, md_files, app_state,
                   httpPc, now, reqs, nframes, dispatched, exportLog, evReq,
                   loudLive, lastReply>>

\* main, lines 249-253: the poll loop ends once stop_event is set, and the
\* event is cleared
SupPollStop ==
    /\ supPc = "poll_stop"
    /\ app_state.stop_event
    /\ app_state' = [app_state EXCEPT !.stop_event = FALSE]
    /\ supPc' = "stop_recording"
    /\ UNCHANGED <<audio_queue, is_recording, transcript, json_file, md_files,
                   httpPc, workers, now, reqs, nframes, dispatched, exportLog,
                   evReq, loudLive, lastReply>>

\* main, line 254
SupStopRecording ==
    /\ supPc = "stop_recording"
    /\ is_recording' = FALSE
    /\ supPc' = "clear_recording"
    /\ UNCHANGED <<audio_queue, transcript, json_file, md_files, app_state,
                   httpPc, workers, now, reqs, nframes, dispatched, exportLog,
                   evReq, loudLive, lastReply>>

\* main, line 255
SupClearRecording ==
    /\ supPc = "clear_recording"
    /\ app_state' = [app_state EXCEPT !.recording = FALSE]
    /\ supPc' = "save_md"
    /\ UNCHANGED <<audio_queue, is_recording, transcript, json_file, md_files,
                   httpPc, workers, now, reqs, nframes, dispatched, exportLog,
                   evReq, loudLive, lastReply>>

\* save_transcript_md (lines 122-136), called at line 257
save_transcript_md_always ==
    /\ md_files' = {f \in md_files : f.name # StampFile(now)}
                   \cup {[name |-> StampFile(now),
                          body |-> Markdown(transcript, now)]}
    /\ exportLog' = Append(exportLog,
                           [name |-> StampFile(now),
                            session |-> Len(workers),
                            entries |-> Len(transcript)])

save_transcript_md ==
    IF transcript = <<>>
    THEN UNCHANGED <<md_files, exportLog>>
    ELSE /\ md_files' = {f \in md_files : f.name # StampFile(now)}
                        \cup {[name |-> StampFile(now),
                               body |-> Markdown(transcript, now)]}
         /\ exportLog' = Append(exportLog,
                                [name |-> StampFile(now),
                                 session |-> Len(workers),
                                 entries |-> Len(transcript)])

SupSaveMd ==
    /\ supPc = "save_md"
    /\ save_transcript_md
    /\ supPc' = "reset"
    /\ UNCHANGED <<audio_queue, is_recording, transcript, json_file, app_state,
                   httpPc, workers, now, reqs, nframes, dispatched, evReq,
                   loudLive, lastReply>>

\* main, line 260: the global is rebound to a new empty list
SupReset ==
    /\ supPc = "reset"
    /\ transcript' = <<>>
    /\ supPc' = "json_open"
    /\ UNCHANGED <<audio_queue, is_recording, json_file, md_files, app_state,
                   httpPc, workers, now, reqs, nframes, dispatched, exportLog,
                   evReq, loudLive, lastReply>>

\* save_transcript_json, line 36: open(json_path, "w") truncates the file
SupJsonOpen ==
    /\ supPc = "json_open"
    /\ json_file' = <<>>
    /\ supPc' = "json_write"
    /\ UNCHANGED <<audio_queue, is_recording, transcript, md_files, app_state,
                   httpPc, workers, now, reqs, nframes, dispatched, exportLog,
                   evReq, loudLive, lastReply>>

\* save_transcript_json, line 37 and the close that flushes it
SupJsonWrite ==
    /\ supPc = "json_write"
    /\ json_file' = WriteAt0(json_file, JsonDump(transcript))
    /\ supPc' = "wait_start"
    /\ UNCHANGED <<audio_queue, is_recording, transcript, md_files, app_state,
                   httpPc, workers, now, reqs, nframes, dispatched, exportLog,
                   evReq, loudLive, lastReply>>

\* ----------------------------------------------------------------- worker
\* transcription_worker, line 58: the loop condition
WorkerCheck(w) ==
    /\ workers[w].pc = "check"
    /\ workers' = [workers EXCEPT ![w].pc =
                       IF is_recording THEN "get" ELSE "exited"]
    /\ UNCHANGED <<audio_queue, is_recording, transcript, json_file, md_files,
                   app_state, httpPc, supPc, now, reqs, nframes, dispatched,
                   exportLog, evReq, loudLive, lastReply>>

\* lines 60, 117-118: the get times out on an empty queue
WorkerGetEmpty(w) ==
    /\ workers[w].pc = "get"
    /\ audio_queue = <<>>
    /\ workers' = [workers EXCEPT ![w].pc = "check"]
    /\ UNCHANGED <<audio_queue, is_recording, transcript, json_file, md_files,
                   app_state, httpPc, supPc, now, reqs, nframes, dispatched,
                   exportLog, evReq, loudLive, lastReply>>

IsSpeechStrict(chunk) == get_volume(chunk) > SILENCE_THRESHOLD

\* line 70: a frame whose volume is at or above the threshold is speech
IsSpeech(chunk) == get_volume(chunk) >= SILENCE_THRESHOLD

OnSpeechKeepTimer(me, chunk) ==
    [me EXCEPT !.audio_buffer = Append(me.audio_buffer, chunk),
               !.heard_speech = TRUE]

\* lines 72-74: a speech frame is buffered and cancels the silence timer
OnSpeech(me, chunk) ==
    [me EXCEPT !.audio_buffer = Append(me.audio_buffer, chunk),
               !.heard_speech = TRUE,
               !.silence_start = None]

\* line 83: the silence timer has run for more than SILENCE_DURATION
SilenceElapsed(me, t) == t - me.silence_start > SILENCE_DURATION

\* lines 112-114: back to waiting for speech, with an empty buffer
ResetSegment(me) ==
    [me EXCEPT !.audio_buffer = <<>>,
               !.silence_start = None,
               !.heard_speech = FALSE]

\* lines 60-90 and 111-114: one frame through the segmentation state machine
WorkerGetFrame(w) ==
    /\ workers[w].pc = "get"
    /\ audio_queue # <<>>
    /\ LET chunk == Head(audio_queue)
           me == workers[w]
           buf == Append(me.audio_buffer, chunk)
       IN  /\ audio_queue' = Tail(audio_queue)
           /\ IF IsSpeech(chunk)
              THEN /\ workers' = [workers EXCEPT ![w] =
                          [OnSpeech(me, chunk) EXCEPT !.pc = "check"]]
                   /\ UNCHANGED dispatched
              ELSE IF ~me.heard_speech
              THEN /\ workers' = [workers EXCEPT ![w].pc = "check"]
                   /\ UNCHANGED dispatched
              ELSE IF me.silence_start = None
              THEN /\ workers' = [workers EXCEPT ![w] =
                          [me EXCEPT !.audio_buffer = buf,
                                     !.silence_start = now,
                                     !.pc = "check"]]
                   /\ UNCHANGED dispatched
              ELSE IF ~SilenceElapsed(me, now)
              THEN /\ workers' = [workers EXCEPT ![w] =
                          [me EXCEPT !.audio_buffer = buf, !.pc = "check"]]
                   /\ UNCHANGED dispatched
              ELSE IF LongEnough(buf)
              THEN /\ workers' = [workers EXCEPT ![w] =
                          [me EXCEPT !.audio_buffer = buf,
                                     !.audio_data = buf,
                                     !.fin = Len(dispatched) + 1,
                                     !.said = "Transcribing",
                                     !.pc = "transcribing"]]
                   /\ dispatched' = Append(dispatched,
                                           [worker |-> w, frames |-> buf,
                                            outcome |-> "pending"])
              ELSE /\ workers' = [workers EXCEPT ![w] =
                          [ResetSegment([me EXCEPT !.audio_buffer = buf])
                              EXCEPT !.pc = "check"]]
                   /\ UNCHANGED dispatched
    /\ UNCHANGED <<is_recording, transcript, json_file, md_files, app_state,
                   httpPc, supPc, now, reqs, nframes, exportLog, evReq,
                   loudLive, lastReply>>

OnRaiseFatal(me) ==
    [me EXCEPT !.audio_data = <<>>,
               !.said = "Transcription error",
               !.pc = "exited"]

\* lines 108-114: a raising recognition call is reported, the segment is
\* reset and the loop goes on
OnRaise(me) ==
    [ResetSegment(me) EXCEPT !.audio_data = <<>>,
                             !.said = "Transcription error",
                             !.pc = "check"]

\* lines 93-98: the recognition call returns segments, which are joined and
\* stripped, or it raises
WorkerTranscribe(w) ==
    /\ workers[w].pc = "transcribing"
    /\ \E out \in RecogOutcomes :
         LET me == workers[w]
         IN  IF out.raises
             THEN /\ workers' = [workers EXCEPT ![w] = OnRaise(me)]
                  /\ dispatched' = [dispatched EXCEPT
                                        ![me.fin].outcome = "raised"]
             ELSE /\ workers' = [workers EXCEPT ![w] =
                         [me EXCEPT !.text = Strip(Join(out.segs)),
                                    !.audio_data = <<>>,
                                    !.pc = "filter"]]
                  /\ dispatched' = [dispatched EXCEPT
                                        ![me.fin].outcome = "returned"]
    /\ UNCHANGED <<audio_queue, is_recording, transcript, json_file, md_files,
                   app_state, httpPc, supPc, now, reqs, nframes, exportLog,
                   evReq, loudLive, lastReply>>

\* lines 100-101, 106-107 and 112-114: the noise filter
WorkerFilter(w) ==
    /\ workers[w].pc = "filter"
    /\ LET me == workers[w]
       IN  IF KeepText(me.text)
           THEN workers' = [workers EXCEPT ![w] =
                    [me EXCEPT !.timestamp = StampHMS(now),
                               !.pc = "append"]]
           ELSE workers' = [workers EXCEPT ![w] =
                    [ResetSegment(me) EXCEPT !.text = <<>>,
                                             !.said = "(no speech detected)",
                                             !.pc = "check"]]
    /\ UNCHANGED <<audio_queue, is_recording, transcript, json_file, md_files,
                   app_state, httpPc, supPc, now, reqs, nframes, dispatched,
                   exportLog, evReq, loudLive, lastReply>>

\* line 102: append to whatever list the global names now
WorkerAppend(w) ==
    /\ workers[w].pc = "append"
    /\ transcript' = Append(transcript,
                            [time |-> workers[w].timestamp,
                             text |-> workers[w].text,
                             worker |-> w,
                             fin |-> workers[w].fin])
    /\ workers' = [workers EXCEPT ![w].pc = "json_open"]
    /\ UNCHANGED <<audio_queue, is_recording, json_file, md_files, app_state,
                   httpPc, supPc, now, reqs, nframes, dispatched, exportLog,
                   evReq, loudLive, lastReply>>

\* line 103 -> save_transcript_json, line 36
WorkerJsonOpen(w) ==
    /\ workers[w].pc = "json_open"
    /\ json_file' = <<>>
    /\ workers' = [workers EXCEPT ![w].pc = "json_write"]
    /\ UNCHANGED <<audio_queue, is_recording, transcript, md_files, app_state,
                   httpPc, supPc, now, reqs, nframes, dispatched, exportLog,
                   evReq, loudLive, lastReply>>

\* save_transcript_json, line 37, then lines 104-105 and 112-114
WorkerJsonWrite(w) ==
    /\ workers[w].pc = "json_write"
    /\ json_file' = WriteAt0(json_file, JsonDump(transcript))
    /\ workers' = [workers EXCEPT ![w] =
           [ResetSegment(@) EXCEPT !.text = <<>>,
                                   !.timestamp = None,
                                   !.said = "entry",
                                   !.pc = "check"]]
    /\ UNCHANGED <<audio_queue, is_recording, transcript, md_files, app_state,
                   httpPc, supPc, now, reqs, nframes, dispatched, exportLog,
                   evReq, loudLive, lastReply>>

\* ------------------------------------------------------------------- next
\* the steps of the HTTP thread after it accepted a request, of the
\* supervisor and of the workers
Threads ==
    \/ PostStartSet
    \/ PostStopSet
    \/ SupWaitStart
    \/ SupStartWorker
    \/ SupPollStop
    \/ SupStopRecording
    \/ SupClearRecording
    \/ SupSaveMd
    \/ SupReset
    \/ SupJsonOpen
    \/ SupJsonWrite
    \/ \E w \in 1..Len(workers) : WorkerCheck(w)
    \/ \E w \in 1..Len(workers) : WorkerGetEmpty(w)
    \/ \E w \in 1..Len(workers) : WorkerGetFrame(w)
    \/ \E w \in 1..Len(workers) : WorkerTranscribe(w)
    \/ \E w \in 1..Len(workers) : WorkerFilter(w)
    \/ \E w \in 1..Len(workers) : WorkerAppend(w)
    \/ \E w \in 1..Len(workers) : WorkerJsonOpen(w)
    \/ \E w \in 1..Len(workers) : WorkerJsonWrite(w)

\* any input: frames of any volume, requests in any order, at any time
Next ==
    \/ /\ nframes < MaxFrames
       /\ Len(audio_queue) < MaxQueue
       /\ \E v \in FrameVolumes : AudioCallback(v)
    \/ /\ now < StartClock + MaxTicks * TickMs
       /\ Tick(TickMs)
    \/ /\ Len(reqs) < MaxRequests
       /\ PostStart
    \/ /\ Len(reqs) < MaxRequests
       /\ PostStop
    \/ Threads

Spec == Init /\ [][Next]_vars

\* one session: a single start request and no stop, audio of any volume at
\* any time (stale frames captured before the start included)
ListenNext ==
    \/ /\ nframes < ListenFrames
       /\ Len(audio_queue) < ListenQueue
       /\ \E v \in FrameVolumes : AudioCallback(v)
    \/ /\ now < StartClock + ListenTicks * TickMs
       /\ Tick(TickMs)
    \/ /\ reqs = <<>>
       /\ PostStart
    \/ PostStartSet
    \/ SupWaitStart
    \/ SupStartWorker
    \/ \E w \in 1..Len(workers) : WorkerCheck(w)
    \/ \E w \in 1..Len(workers) : WorkerGetEmpty(w)
    \/ \E w \in 1..Len(workers) : WorkerGetFrame(w)
    \/ \E w \in 1..Len(workers) : WorkerTranscribe(w)
    \/ \E w \in 1..Len(workers) : WorkerFilter(w)
    \/ \E w \in 1..Len(workers) : WorkerAppend(w)
    \/ \E w \in 1..Len(workers) : WorkerJsonOpen(w)
    \/ \E w \in 1..Len(workers) : WorkerJsonWrite(w)

ListenSpec == Init /\ [][ListenNext]_vars

\* a silent room: requests of any kind in any order, and only frames below
\* the threshold
SilentNext ==
    \/ /\ nframes < SilentFrames
       /\ Len(audio_queue) < MaxQueue
       /\ AudioCallback(SilentVolume)
    \/ /\ Len(reqs) < MaxRequests
       /\ PostStart
    \/ /\ Len(reqs) < MaxRequests
       /\ PostStop
    \/ GetStatus
    \/ \E path \in OtherGets : GetOther(path)
    \/ \E path \in OtherPosts : PostOther(path)
    \/ PostStartSet
    \/ PostStopSet
    \/ SupWaitStart
    \/ SupStartWorker
    \/ SupPollStop
    \/ SupStopRecording
    \/ SupClearRecording
    \/ SupSaveMd
    \/ SupReset
    \/ SupJsonOpen
    \/ SupJsonWrite
    \/ \E w \in 1..Len(workers) : WorkerCheck(w)
    \/ \E w \in 1..Len(workers) : WorkerGetEmpty(w)
    \/ \E w \in 1..Len(workers) : WorkerGetFrame(w)

SilentSpec == Init /\ [][SilentNext]_vars

\* one step of worker thread w, whichever statement it is at: the get of
\* line 60 times out after 0.1 s and the recognition call returns or raises
WorkerStep(w) ==
    /\ w \in 1..Len(workers)
    /\ \/ WorkerCheck(w)
       \/ WorkerGetEmpty(w)
       \/ WorkerGetFrame(w)
       \/ WorkerTranscribe(w)
       \/ WorkerFilter(w)
       \/ WorkerAppend(w)
       \/ WorkerJsonOpen(w)
       \/ WorkerJsonWrite(w)

\* one step of the supervisor loop of main()
SupervisorStep ==
    \/ SupWaitStart
    \/ SupStartWorker
    \/ SupPollStop
    \/ SupStopRecording
    \/ SupClearRecording
    \/ SupSaveMd
    \/ SupReset
    \/ SupJsonOpen
    \/ SupJsonWrite

\* the HTTP thread completes the request it accepted
HandlerStep == PostStartSet \/ PostStopSet

\* the silent room with fair scheduling: every thread that can take a step
\* eventually takes one; the requests and the frames remain free
FairSilentSpec ==
    /\ Init
    /\ [][SilentNext]_vars
    /\ WF_vars(SupervisorStep)
    /\ WF_vars(HandlerStep)
    /\ \A w \in 1..MaxRequests : WF_vars(WorkerStep(w))

\* ------------------------------------------------------ scripted inputs
\* One input timeline (frames captured, clock advances, requests received,
\* in a fixed order), against every scheduling of the HTTP thread, the
\* supervisor and the workers, and every outcome of the recognition calls.
Frame(v) == [k |-> "frame", v |-> v, r |-> ""]
Clock == [k |-> "tick", v |-> 0, r |-> ""]
Request(r) == [k |-> "req", v |-> 0, r |-> r]

\* one utterance: a frame at the threshold, three frames below it, a pause
\* longer than SILENCE_DURATION, one more frame below the threshold
Utterance ==
    <<Frame(15), Frame(14), Frame(14), Frame(14), Clock, Clock, Frame(14)>>

ScenarioPos ==
    nframes + Len(reqs) + ((now - StartClock) \div TickMs)

ScenarioNext(script) ==
    \/ /\ ScenarioPos < Len(script)
       /\ script[ScenarioPos + 1].k = "frame"
       /\ Len(audio_queue) < MaxQueue
       /\ AudioCallback(script[ScenarioPos + 1].v)
    \/ /\ ScenarioPos < Len(script)
       /\ script[ScenarioPos + 1].k = "tick"
       /\ Tick(TickMs)
    \/ /\ ScenarioPos < Len(script)
       /\ script[ScenarioPos + 1].k = "req"
       /\ script[ScenarioPos + 1].r = "start"
       /\ PostStart
    \/ /\ ScenarioPos < Len(script)
       /\ script[ScenarioPos + 1].k = "req"
       /\ script[ScenarioPos + 1].r = "stop"
       /\ PostStop
    \/ Threads

\* a session with one utterance, stopped; then a second session like it
RestartScript ==
    <<Request("start")>> \o Utterance \o <<Request("stop")>>
    \o <<Request("start")>> \o Utterance \o <<Request("stop")>>

RestartSpec == Init /\ [][ScenarioNext(RestartScript)]_vars

\* a session with two utterances, then stop, start, stop within one second
QuickToggleScript ==
    <<Request("start")>> \o Utterance \o Utterance
    \o <<Request("stop"), Request("start"), Request("stop")>>

QuickToggleSpec == Init /\ [][ScenarioNext(QuickToggleScript)]_vars

\* --------------------------------------------------- derived state, history
WorkerIds == 1..Len(workers)

\* the thread of worker w is still inside transcription_worker
Alive(w) == workers[w].pc # "exited"

\* worker w is inside the body of its loop (lines 59-120)
InLoop(w) ==
    workers[w].pc \in {"get", "transcribing", "filter", "append",
                       "json_open", "json_write"}

\* the supervisor has taken the export of the session that started worker w
Exported(w) ==
    \/ w < Len(workers)
    \/ w = Len(workers) /\ supPc \in {"reset", "json_open", "json_write",
                                       "wait_start", "start_worker"}

\* the session of the newest worker is in progress (lines 246-257)
SessionActive ==
    supPc \in {"poll_stop", "stop_recording", "clear_recording", "save_md"}

\* json.load of the snapshot: the records of a complete array, or an error
ParseError == <<[tok |-> "error", time |-> 0, text |-> <<>>]>>

JsonLoad(file) ==
    IF /\ Len(file) >= 2
       /\ file[1].tok = "["
       /\ file[Len(file)].tok = "]"
       /\ \A i \in 2..(Len(file) - 1) : file[i].tok = "rec"
    THEN [i \in 1..(Len(file) - 2) |->
              [time |-> file[i + 1].time, text |-> file[i + 1].text]]
    ELSE ParseError

\* no request in flight, no signal pending, every thread at rest
Quiescent ==
    /\ httpPc = "idle"
    /\ ~app_state.start_event
    /\ ~app_state.stop_event
    /\ supPc \in {"wait_start", "poll_stop"}
    /\ \A w \in WorkerIds : Alive(w) => is_recording

\* the state a finished session leaves behind
Idle ==
    /\ supPc = "wait_start"
    /\ ~app_state.recording
    /\ ~app_state.start_event
    /\ \A w \in WorkerIds : ~Alive(w)

\* ------------------------------------------------------------------ claims

\* C1: at most one transcription_worker thread is executing its loop at any
\* instant, for every sequence of start and stop requests.
C1_OneWorkerAtATime ==
    Cardinality({w \in WorkerIds : InLoop(w)}) <= 1

\* C2: once the supervisor has taken a session's export, that session's
\* worker has no recognition call in flight and no append pending: it
\* finished them before the export and no longer mutates the log.
C2_WorkerRetiredBeforeExport ==
    \A w \in WorkerIds :
        Exported(w) =>
            workers[w].pc \notin {"transcribing", "filter", "append",
                                  "json_open", "json_write"}

\* C3: the transcript is empty when the supervisor launches a worker, and
\* while a session is in progress every entry of the transcript was appended
\* by that session's worker.
C3_LogScopedToSession ==
    /\ supPc = "start_worker" => transcript = <<>>
    /\ SessionActive =>
           \A i \in 1..Len(transcript) : transcript[i].worker = Len(workers)

\* C4: a worker never leaves its loop holding buffered frames: a non-empty
\* audio_buffer is dropped only after a dispatch or a too-short discard.
C4_NoBufferLostAtStop ==
    \A w \in WorkerIds : ~Alive(w) => workers[w].audio_buffer = <<>>

\* C5: whenever transcript.json is read it parses as a complete array of
\* {time, text} records (never an empty, truncated or mixed file).
C5_SnapshotAlwaysParses ==
    JsonLoad(json_file) # ParseError

\* C6: for any two entries of the log, the earlier one comes from an
\* utterance finalized no later than the other's and its time stamp is not
\* later.
C6_ChronologicalOrder ==
    \A i, j \in 1..Len(transcript) :
        i < j => /\ transcript[i].fin <= transcript[j].fin
                 /\ transcript[i].time <= transcript[j].time

\* C7: start is idempotent: after the requests start, start, stop have been
\* handled and everything has come to rest, the system is where start, stop
\* leaves it: supervisor waiting for a start, no worker running, recording
\* false, no start signal pending.
C7_StartIdempotent ==
    (reqs = <<"start", "start", "stop">> /\ Quiescent) => Idle

\* C8: a session is only ever ended by a stop request issued after the
\* start request that began it; a stop received while no session was active
\* has no effect on later sessions.
C8_StaleStopHasNoEffect ==
    supPc = "stop_recording" => evReq.stop > evReq.session

\* C9: the exports written for two different sessions never carry the same
\* file name, so no export is overwritten.
C9_ExportNamesDistinct ==
    \A i, j \in 1..Len(exportLog) :
        i # j => exportLog[i].name # exportLog[j].name

\* C10: if every frame captured between a start request and the following
\* stop request is below the threshold, no utterance is ever dispatched and
\* the transcript stays empty.
C10_SilenceNeverDispatched ==
    ~loudLive => (dispatched = <<>> /\ transcript = <<>>)

\* worker w takes the frame at the head of the queue in this step
Consumes(w) ==
    /\ workers[w].pc = "get"
    /\ audio_queue # <<>>
    /\ audio_queue' = Tail(audio_queue)
    /\ workers'[w] # workers[w]

\* C11: a frame below the threshold consumed before any speech is not
\* buffered and leaves the worker waiting for speech; a frame at or above
\* the threshold, one exactly at it included, is buffered as speech; so
\* every dispatched utterance begins with a frame at or above the threshold.
C11_PreSpeechDiscard ==
    [][/\ \A w \in WorkerIds :
            Consumes(w) =>
                LET chunk == Head(audio_queue)
                    me == workers[w]
                    after == workers'[w]
                IN  /\ (chunk.vol < SILENCE_THRESHOLD /\ ~me.heard_speech)
                         => (after.audio_buffer = <<>> /\ ~after.heard_speech)
                    /\ chunk.vol >= SILENCE_THRESHOLD
                         => /\ after.heard_speech
                            /\ after.audio_buffer =
                                   Append(me.audio_buffer, chunk)
       /\ \A i \in 1..Len(dispatched') :
            dispatched'[i].frames[1].vol >= SILENCE_THRESHOLD]_vars

\* an utterance was dispatched that begins with a frame exactly at the
\* threshold, the frames captured before it having been dropped
C11_Witness ==
    \E i \in 1..Len(dispatched) :
        /\ dispatched[i].frames[1].vol = SILENCE_THRESHOLD
        /\ dispatched[i].frames[1].n > 1
        /\ \A k \in 1..(dispatched[i].frames[1].n - 1) :
               \A j \in 1..Len(dispatched) :
                   \A f \in 1..Len(dispatched[j].frames) :
                       dispatched[j].frames[f].n # k

\* the audio time one frame holds, in ms (CHUNK_SIZE samples at SAMPLE_RATE)
FrameMs == (CHUNK_SIZE * MsPerSecond) \div SAMPLE_RATE

\* the frames at or above the threshold come first in `frames`
SpeechThenSilence(frames) ==
    \A i, j \in 1..Len(frames) :
        (i < j /\ IsSpeech(frames[j])) => IsSpeech(frames[i])

\* the number of frames of `frames` at or above the threshold
SpeechCount(frames) ==
    Cardinality({i \in 1..Len(frames) : IsSpeech(frames[i])})

\* C12: an utterance made of speech frames of total duration D followed by
\* silence frames is finalized with a buffered duration of
\* D + SILENCE_DURATION, give or take one frame period, whatever the pace at
\* which the worker consumed the frames.
C12_UtteranceDuration ==
    \A i \in 1..Len(dispatched) :
        LET frames == dispatched[i].frames
            D == SpeechCount(frames) * FrameMs
            total == Len(frames) * FrameMs
        IN  SpeechThenSilence(frames) =>
                /\ total >= D + SILENCE_DURATION - FrameMs
                /\ total <= D + SILENCE_DURATION + FrameMs

\* worker w finalizes its buffer in this step without dispatching it: the
\* buffer is dropped on the frame that ends the silence (lines 83-89, 112)
DiscardsTooShort(w) ==
    /\ Consumes(w)
    /\ workers[w].heard_speech
    /\ ~workers'[w].heard_speech

\* C13: an utterance shorter than MIN_AUDIO_LENGTH is not passed to the
\* recognition engine and produces no entry, and its discard is reported on
\* the console with the "(no speech detected)" line.
C13_TooShortReported ==
    [][\A w \in WorkerIds :
           DiscardsTooShort(w) =>
               /\ dispatched' = dispatched
               /\ transcript' = transcript
               /\ workers'[w].said = "(no speech detected)"]_vars

\* C14: when the joined and trimmed text of a recognition result is empty
\* or equals, ignoring case, one of you, you., the, a and ., no entry is
\* appended and the snapshot is not rewritten; every other text carries no
\* white space at its ends and yields exactly one appended entry with that
\* text.
C14_NoiseFilter ==
    [][\A w \in WorkerIds :
           LET me == workers[w]
               after == workers'[w]
               noise == \/ me.text = <<>>
                        \/ Lower(me.text) \in NoiseTokens
           IN  /\ (me.pc = "filter" /\ after.pc # "filter") =>
                      IF noise
                      THEN /\ after.pc = "check"
                           /\ transcript' = transcript
                           /\ json_file' = json_file
                      ELSE /\ after.pc = "append"
                           /\ after.text = me.text
                           /\ ~IsSpace(me.text[1])
                           /\ ~IsSpace(me.text[Len(me.text)])
               /\ (me.pc = "append" /\ after.pc # "append") =>
                      /\ ~noise
                      /\ Len(transcript') = Len(transcript) + 1
                      /\ transcript'[Len(transcript')].text = me.text
                      /\ SubSeq(transcript', 1, Len(transcript)) = transcript
                      /\ after.pc = "json_open"]_vars

\* a worker appended the entry of one utterance and then filtered out the
\* text of a later one, and the snapshot still holds the log unchanged
C14_Witness ==
    \E w \in WorkerIds :
        /\ workers[w].said = "(no speech detected)"
        /\ workers[w].pc = "check"
        /\ \E i \in 1..Len(transcript) :
               /\ transcript[i].worker = w
               /\ transcript[i].text = <<"H", "i", " ", " ", "a">>
        /\ JsonLoad(json_file) =
               [i \in 1..Len(transcript) |->
                    [time |-> transcript[i].time, text |-> transcript[i].text]]

\* the recognition call of worker w raises in this step
Raises(w) ==
    /\ workers[w].pc = "transcribing"
    /\ dispatched[workers[w].fin].outcome = "pending"
    /\ dispatched'[workers[w].fin].outcome = "raised"

\* C15: when the recognition call raises, no entry is appended and the
\* snapshot is not rewritten, the worker is back at the top of its loop
\* waiting for speech with an empty buffer, and no entry of the log ever
\* comes from an utterance whose recognition raised.
C15_RecognitionFailureNotFatal ==
    [][/\ \A w \in WorkerIds :
            Raises(w) =>
                /\ workers'[w].pc = "check"
                /\ workers'[w].audio_buffer = <<>>
                /\ workers'[w].silence_start = None
                /\ ~workers'[w].heard_speech
                /\ workers'[w].said = "Transcription error"
                /\ transcript' = transcript
                /\ json_file' = json_file
       /\ \A i \in 1..Len(transcript') :
            dispatched'[transcript'[i].fin].outcome = "returned"]_vars

\* the recognition of one utterance raised, and a later utterance of the
\* same worker was dispatched and its entry appended
C15_Witness ==
    \E i, j \in 1..Len(dispatched) :
        /\ i < j
        /\ dispatched[i].worker = dispatched[j].worker
        /\ dispatched[i].outcome = "raised"
        /\ \E k \in 1..Len(transcript) :
               /\ transcript[k].fin = j
               /\ transcript[k].worker = dispatched[j].worker

\* the requests start, stop have been handled and everything is at rest
EmptySessionOver == reqs = <<"start", "stop">> /\ Quiescent

\* a start request that raised the start signal anew after a start and a
\* stop has been handled: a new worker is running
LaterStartLaunches ==
    (reqs = <<"start", "stop", "start">> /\ evReq.start = 3 /\ Quiescent)
        => /\ supPc = "poll_stop"
           /\ Len(workers) = 2
           /\ Alive(2)
           /\ is_recording

\* C16: with no speech, start followed by stop produces an export with zero
\* entries; the supervisor completes the teardown and waits again, and a
\* later start launches a new worker.
C16_EmptySessionExport ==
    /\ EmptySessionOver =>
           /\ Idle
           /\ \E i \in 1..Len(exportLog) : exportLog[i].entries = 0
    /\ LaterStartLaunches

\* C16, amended: with no speech, start followed by stop writes no export at
\* all (an empty log is skipped) and leaves an empty snapshot; the
\* supervisor completes the teardown and waits again, and a later start
\* launches a new worker.
C16_EmptySessionSkipsExport ==
    /\ EmptySessionOver =>
           /\ Idle
           /\ exportLog = <<>>
           /\ md_files = {}
           /\ JsonLoad(json_file) = <<>>
    /\ LaterStartLaunches

\* after a start and a stop with only silent frames, no export exists and
\* a later start has launched the second worker
C16_Witness ==
    /\ reqs = <<"start", "stop", "start">>
    /\ Quiescent
    /\ nframes > 0
    /\ audio_queue = <<>>
    /\ Len(workers) = 2
    /\ ~Alive(1)
    /\ Alive(2)
    /\ md_files = {}

\* the five requests the handler treats itself
KnownRequest(r) ==
    \/ r.method = "GET" /\ r.path \in {"/", "/index.html", "/api/status"}
    \/ r.method = "POST" /\ r.path \in {"/api/start", "/api/stop"}

\* this step answers a request that is none of the five
AnswersOther ==
    /\ lastReply' # lastReply
    /\ ~KnownRequest(lastReply'[1])

\* the session state and both signals are what they were
ControlUnchanged ==
    /\ app_state' = app_state
    /\ is_recording' = is_recording
    /\ supPc' = supPc
    /\ reqs' = reqs
    /\ evReq' = evReq

Finalizes(w) ==
    /\ Consumes(w)
    /\ \/ workers'[w].pc = "transcribing"
       \/ DiscardsTooShort(w)

\* C18: while the silence timer runs, a frame at or above the threshold is
\* buffered and cancels it; the timer is started only by the first quiet
\* frame after a speech frame and only quiet frames are buffered while it
\* runs; an utterance is finalized only on a quiet frame consumed more than
\* SILENCE_DURATION after the timer was started.  So silences separated by
\* speech are never added up.
C18_SilenceTimerCancelled ==
    [][\A w \in WorkerIds :
           LET chunk == Head(audio_queue)
               me == workers[w]
               after == workers'[w]
           IN  /\ Consumes(w) =>
                      /\ (chunk.vol >= SILENCE_THRESHOLD
                              /\ me.silence_start # None)
                             => /\ after.silence_start = None
                                /\ after.audio_buffer =
                                       Append(me.audio_buffer, chunk)
                                /\ after.pc = "check"
                      /\ (after.silence_start # None
                              /\ after.silence_start # me.silence_start)
                             => /\ me.silence_start = None
                                /\ after.silence_start = now
                                /\ chunk.vol < SILENCE_THRESHOLD
                                /\ me.audio_buffer # <<>>
                                /\ me.audio_buffer[Len(me.audio_buffer)].vol
                                       >= SILENCE_THRESHOLD
               /\ Finalizes(w) =>
                      /\ chunk.vol < SILENCE_THRESHOLD
                      /\ me.silence_start # None
                      /\ now - me.silence_start > SILENCE_DURATION
               /\ after.silence_start # None =>
                      /\ after.audio_buffer # <<>>
                      /\ after.audio_buffer[Len(after.audio_buffer)].vol
                             < SILENCE_THRESHOLD]_vars

\* an utterance was dispatched in which a quiet frame is followed by a
\* speech frame: a silence timer was started and cancelled
C18_Witness ==
    \E i \in 1..Len(dispatched) :
        \E j \in 1..(Len(dispatched[i].frames) - 1) :
            /\ dispatched[i].frames[j].vol < SILENCE_THRESHOLD
            /\ dispatched[i].frames[j + 1].vol >= SILENCE_THRESHOLD

\* C19: at every quiescent point the recording flag that GET /api/status
\* reports is true if a worker is running and false if the supervisor is
\* waiting for a start.
C19_StatusAgreesWithLifecycle ==
    Quiescent =>
        /\ (\E w \in WorkerIds : Alive(w)) => app_state.recording
        /\ supPc = "wait_start" => ~app_state.recording

\* C20: every frame of a dispatched utterance was captured while a session
\* was requested, that is after a start request and before the next stop
\* request.
C20_OnlySessionAudio ==
    \A i \in 1..Len(dispatched) :
        \A j \in 1..Len(dispatched[i].frames) :
            dispatched[i].frames[j].live

\* the supervisor has set is_recording to False for the session that
\* started worker w (line 254)
Stopped(w) ==
    /\ w \in WorkerIds
    /\ \/ w < Len(workers)
       \/ supPc \in {"clear_recording", "save_md", "reset", "json_open",
                      "json_write", "wait_start", "start_worker"}

\* worker w has left its loop
Retired(w) == w \in WorkerIds /\ ~Alive(w)

\* C21: once the supervisor has set is_recording to False for a session,
\* the worker of that session eventually leaves its loop, under fair
\* scheduling of all threads and whatever requests arrive afterwards.
C21_WorkerEventuallyRetired ==
    \A w \in 1..MaxRequests : [](Stopped(w) => <>Retired(w))

====
